---------------------------- MODULE Spec2Model ----------------------------
(***************************************************************************)
(* Model of Miner (src/pm.py): the streaming loop process_stream, the      *)
(* variant ranking select_best_variants, and the bookkeeping done by       *)
(* learn_model and evaluate_model.  One step of the model is one event of  *)
(* the stream, i.e. one iteration of the for loop of process_stream.       *)
(*                                                                         *)
(* The discovery and conformance libraries are outside the repository: a   *)
(* learned model is represented by the exemplar log it was learned from,   *)
(* and the two numbers an evaluation returns are drawn from Results, as    *)
(* percentages (100 stands for 1.0).                                       *)
(***************************************************************************)
EXTENDS Integers, Sequences, FiniteSets, TLC

\* ------------------------------------------------------------- bounds
MaxTraces == 3          \* cases the stream holds
MaxRawLen == 2          \* non-final events of one case
MaxLongRaw == 5         \* non-final events of one case in the long-trace runs
MaxCutPoint == 2        \* cut_point ranges over 0..MaxCutPoint
MaxTopVariants == 2     \* top_variants ranges over 0..MaxTopVariants

Cases == {"c1", "c2"}
Activities == {"A", "B"}
\* <<fitness, precision>> pairs the evaluation library may return
Results == {<<0, 0>>, <<50, 50>>, <<100, 0>>}

\* ------------------------------------------------- program constants
FINAL_ACTIVITY == "_END_"
FRQ == 1
MIN == 2
MAX == 3
Order == {FRQ, MIN, MAX}

\* best_variants before the first selection (Python None).  No variant is
\* ever the empty tuple, so this value is no result of a selection.
None == << <<>> >>

VARIABLES
  order,              \* self.order
  cut_point,          \* self.cut_point
  top_variants,       \* self.top_variants
  processed_traces,   \* self.processed_traces
  variants,           \* self.variants: Counter, as <<variant, count>> pairs in insertion order
  best_variants,      \* self.best_variants
  models,             \* self.models
  drifts,             \* self.drifts: rows <<processed_traces, variant, ..., variant>>
  evaluations,        \* self.evaluations: rows of up to six numbers
  traces,             \* local traces: open case -> recorded activities
  new_trace,          \* local new_trace: the trace finalized last
  raw,                \* open case -> the activities the stream delivered for it
  consumed,           \* the activities the stream delivered for the trace finalized last
  finalized,          \* the traces finalized so far, in order
  event,              \* the event consumed last, as <<case, activity>>
  closed,             \* the cases finalized and not opened again since
  eval_models,        \* the tuple (models[-1], models[0]) of the last evaluate_model call
  error               \* "none", or the exception that ended process_stream

vars == <<order, cut_point, top_variants, processed_traces, variants,
          best_variants, models, drifts, evaluations, traces, new_trace,
          raw, consumed, finalized, event, closed, eval_models, error>>

config == <<order, cut_point, top_variants>>

\* ------------------------------------------------------ list helpers
Last(s) == s[Len(s)]
Front(s) == SubSeq(s, 1, Len(s) - 1)
Min2(a, b) == IF a <= b THEN a ELSE b
Max2(a, b) == IF a >= b THEN a ELSE b

\* Python s[:k], negative k included
SliceTo(s, k) ==
  IF k >= 0 THEN SubSeq(s, 1, Min2(k, Len(s)))
  ELSE SubSeq(s, 1, Max2(0, Len(s) + k))

\* a stable ascending sort of <<key, item>> pairs on the key
RECURSIVE InsertStable(_, _)
InsertStable(s, p) ==
  IF s = <<>> THEN <<p>>
  ELSE IF Last(s)[1] <= p[1] THEN Append(s, p)
  ELSE Append(InsertStable(Front(s), p), Last(s))

RECURSIVE SortStable(_)
SortStable(s) ==
  IF s = <<>> THEN <<>>
  ELSE InsertStable(SortStable(Front(s)), Last(s))

Items(s) == [i \in 1..Len(s) |-> s[i][2]]

\* ---------------------------------------------------------- Counter
Keys(c) == [i \in 1..Len(c) |-> c[i][1]]
KeySet(c) == {c[i][1] : i \in 1..Len(c)}
Count(c, v) ==
  IF \E i \in 1..Len(c) : c[i][1] = v
  THEN (CHOOSE p \in {c[i] : i \in 1..Len(c)} : p[1] = v)[2]
  ELSE 0

\* the count is reset instead of incremented
IncrementReset(c, v) ==
  IF \E i \in 1..Len(c) : c[i][1] = v
  THEN [i \in 1..Len(c) |-> IF c[i][1] = v THEN <<v, 1>> ELSE c[i]]
  ELSE Append(c, <<v, 1>>)

\* self.variants[new_trace] += 1
Increment(c, v) ==
  IF \E i \in 1..Len(c) : c[i][1] = v
  THEN [i \in 1..Len(c) |-> IF c[i][1] = v THEN <<v, c[i][2] + 1>> ELSE c[i]]
  ELSE Append(c, <<v, 1>>)

\* the items in insertion order, not ranked
MostCommonAllUnsorted(c) == c

\* Counter.most_common(): the items by descending count, equal counts in
\* insertion order
MostCommonAll(c) ==
  Items(SortStable([i \in 1..Len(c) |-> <<0 - c[i][2], c[i]>>]))

\* Counter.most_common(n): heapq.nlargest(n, items, key=count)
MostCommon(c, n) ==
  IF n <= 0 THEN <<>> ELSE SubSeq(MostCommonAll(c), 1, Min2(n, Len(c)))

\* the descending order is made by reversing the ascending one, which
\* reverses the variants of equal length too
RECURSIVE Reversed(_)
Reversed(s) == IF s = <<>> THEN <<>> ELSE <<Last(s)>> \o Reversed(Front(s))

SortByLenFlip(vs, reverse) ==
  LET up == Items(SortStable([i \in 1..Len(vs) |-> <<Len(vs[i]), vs[i]>>]))
  IN IF reverse THEN Reversed(up) ELSE up

\* list.sort(key=len, reverse=...): stable in both directions
SortByLen(vs, reverse) ==
  Items(SortStable([i \in 1..Len(vs) |->
          <<IF reverse THEN 0 - Len(vs[i]) ELSE Len(vs[i]), vs[i]>>]))

\* the value select_best_variants leaves in self.best_variants
select_best_variants(o, c, k) ==
  IF o = FRQ THEN Keys(MostCommon(c, k))
  ELSE SliceTo(SortByLen(Keys(MostCommonAll(c)), o = MAX), k)

\* the new model is put in front of the list
learn_model_Prepend(ms, best) == <<best>> \o ms

\* only the current model is kept
learn_model_Replace(ms, best) == <<best>>

\* the backend's model is not kept
learn_model_Lost(ms, best) == ms

\* the model list after learn_model: one handle appended, whatever the
\* algorithm; the handle is the exemplar log
learn_model(ms, best) == Append(ms, best)

\* 2 * fitness * precision / (fitness + precision), rounded down
FMeasure(f, p) == (2 * f * p) \div (f + p)

\* evaluate_model: the row is appended first, then (models[-1], models[0])
\* is built, then each model adds three numbers
evaluate_model(ms, evs, r1, r2) ==
  IF ms = <<>>
    THEN [evaluations |-> Append(evs, <<>>), error |-> "IndexError"]
  ELSE IF r1[1] + r1[2] = 0
    THEN [evaluations |-> Append(evs, <<>>), error |-> "ZeroDivisionError"]
  ELSE IF r2[1] + r2[2] = 0
    THEN [evaluations |-> Append(evs, <<r1[1], r1[2], FMeasure(r1[1], r1[2])>>),
          error |-> "ZeroDivisionError"]
  ELSE [evaluations |-> Append(evs, <<r1[1], r1[2], FMeasure(r1[1], r1[2]),
                                      r2[1], r2[2], FMeasure(r2[1], r2[2])>>),
        error |-> "none"]

\* line 164: the models an evaluation runs against, (models[-1], models[0]);
\* building the tuple raises on an empty list and leaves the previous one
EvaluatedModels(ms, previous) ==
  IF ms = <<>> THEN previous ELSE <<Last(ms), ms[1]>>

\* the warm-up ends one trace late
AtCutPointLate(n, cut) == n = cut + 1

\* line 106: the trace that ends the warm-up
AtCutPoint(n, cut) == n = cut

\* the row carries the count before the increment of line 105
DriftRowStale(n, best) == <<n - 1>> \o best

\* lines 108 and 115: [self.processed_traces, *self.best_variants]
DriftRow(n, best) == <<n>> \o best

\* nothing is collapsed
AppendsAlways(buf, activity) == TRUE

\* plain suppression of an adjacent duplicate: the second-to-last test is lost
AppendsAdjacent(buf, activity) ==
  \/ Len(buf) = 1
  \/ buf[Len(buf)] # activity

\* the append condition of line 119 on a case with an open buffer
Appends(buf, activity) ==
  \/ Len(buf) = 1
  \/ buf[Len(buf)] # activity
  \/ buf[Len(buf) - 1] # activity

\* the buffer is read but stays in the map
RemoveNothing(f, case) == f

\* the map is replaced by one holding the new buffer alone
PutOnly(f, case, val) == [c \in {case} |-> val]

Remove(f, case) == [c \in DOMAIN f \ {case} |-> f[c]]
Put(f, case, val) == [c \in DOMAIN f \cup {case} |-> IF c = case THEN val ELSE f[c]]

\* ---------------------------------------------------------- Init
Init ==
  /\ order \in Order
  /\ cut_point \in 0..MaxCutPoint
  /\ top_variants \in 0..MaxTopVariants
  /\ processed_traces = 0
  /\ variants = <<>>
  /\ best_variants = None
  /\ models = <<>>
  /\ drifts = <<>>
  /\ evaluations = <<>>
  /\ traces = <<>>
  /\ new_trace = <<>>
  /\ raw = <<>>
  /\ consumed = <<>>
  /\ finalized = <<>>
  /\ event = <<>>
  /\ closed = {}
  /\ eval_models = <<>>
  /\ error = "none"

\* ---------------------------------------------------------- actions
\* lines 117-118: a non-final activity of a case with no open buffer
NewCase(case, activity, maxCases) ==
  /\ error = "none"
  /\ case \notin DOMAIN traces
  /\ processed_traces + Cardinality(DOMAIN traces) < maxCases
  /\ traces' = Put(traces, case, <<activity>>)
  /\ raw' = Put(raw, case, <<activity>>)
  /\ event' = <<case, activity>>
  /\ closed' = closed \ {case}
  /\ UNCHANGED <<config, processed_traces, variants, best_variants, models,
                 drifts, evaluations, new_trace, consumed, finalized, eval_models, error>>

\* lines 119-120: a non-final activity of a case with an open buffer
Activity(case, activity, maxLen) ==
  /\ error = "none"
  /\ case \in DOMAIN traces
  /\ Len(raw[case]) < maxLen
  /\ traces' = IF Appends(traces[case], activity)
               THEN [traces EXCEPT ![case] = Append(@, activity)]
               ELSE traces
  /\ raw' = [raw EXCEPT ![case] = Append(@, activity)]
  /\ event' = <<case, activity>>
  /\ closed' = closed
  /\ UNCHANGED <<config, processed_traces, variants, best_variants, models,
                 drifts, evaluations, new_trace, consumed, finalized, eval_models, error>>

\* the trace is counted before the buffer is looked up
MissingCaseCounted(case) ==
  /\ error = "none"
  /\ case \notin DOMAIN traces
  /\ error' = "KeyError"
  /\ event' = <<case, FINAL_ACTIVITY>>
  /\ processed_traces' = processed_traces + 1
  /\ UNCHANGED <<config, variants, best_variants, models, drifts, evaluations,
                 traces, new_trace, raw, consumed, finalized, closed, eval_models>>

\* line 103 on a case with no open buffer: traces.pop raises KeyError
MissingCase(case) ==
  /\ error = "none"
  /\ case \notin DOMAIN traces
  /\ error' = "KeyError"
  /\ event' = <<case, FINAL_ACTIVITY>>
  /\ closed' = closed
  /\ UNCHANGED <<config, processed_traces, variants, best_variants, models,
                 drifts, evaluations, traces, new_trace, raw, consumed, finalized,
                 eval_models>>

\* lines 102-116: the final activity of a case with an open buffer
FinalActivity(case) ==
  /\ error = "none"
  /\ case \in DOMAIN traces
  /\ LET t == traces[case]
         c == Increment(variants, t)
         n == processed_traces + 1
         best == select_best_variants(order, c, top_variants)
     IN
     /\ traces' = Remove(traces, case)
     /\ raw' = Remove(raw, case)
     /\ new_trace' = t
     /\ consumed' = raw[case]
     /\ finalized' = Append(finalized, t)
     /\ event' = <<case, FINAL_ACTIVITY>>
     /\ closed' = closed \cup {case}
     /\ variants' = c
     /\ processed_traces' = n
     /\ IF AtCutPoint(n, cut_point) THEN
          /\ best_variants' = best
          /\ drifts' = Append(drifts, DriftRow(n, best))
          /\ models' = learn_model(models, best)
          /\ UNCHANGED <<evaluations, eval_models, error>>
        ELSE IF n > cut_point THEN
          \E r1 \in Results, r2 \in Results :
            LET ev == evaluate_model(models, evaluations, r1, r2) IN
            /\ evaluations' = ev.evaluations
            /\ eval_models' = EvaluatedModels(models, eval_models)
            /\ IF ev.error # "none" THEN
                 /\ error' = ev.error
                 /\ UNCHANGED <<best_variants, drifts, models>>
               ELSE IF drifts = <<>> THEN
                 /\ error' = "IndexError"
                 /\ best_variants' = best
                 /\ UNCHANGED <<drifts, models>>
               ELSE
                 /\ error' = "none"
                 /\ best_variants' = best
                 /\ IF best # Tail(Last(drifts)) THEN
                      /\ drifts' = Append(drifts, DriftRow(n, best))
                      /\ models' = learn_model(models, best)
                    ELSE UNCHANGED <<drifts, models>>
        ELSE UNCHANGED <<best_variants, drifts, models, evaluations, eval_models, error>>
  /\ UNCHANGED config

Next ==
  \/ \E case \in Cases, activity \in Activities : NewCase(case, activity, MaxTraces)
  \/ \E case \in Cases, activity \in Activities : Activity(case, activity, MaxRawLen)
  \/ \E case \in Cases : MissingCase(case)
  \/ \E case \in Cases : FinalActivity(case)

Spec == Init /\ [][Next]_vars

\* Runs with long traces: one configuration, one case instance per case
\* identifier, up to MaxLongRaw activities per case.
TraceInit ==
  /\ Init
  /\ order = FRQ
  /\ cut_point = MaxCutPoint
  /\ top_variants = 1

TraceNext ==
  \/ \E case \in Cases, activity \in Activities :
        NewCase(case, activity, Cardinality(Cases))
  \/ \E case \in Cases, activity \in Activities : Activity(case, activity, MaxLongRaw)
  \/ \E case \in Cases : MissingCase(case)
  \/ \E case \in Cases : FinalActivity(case)

TraceSpec == TraceInit /\ [][TraceNext]_vars

\* ================================================================ claims

\* ---- C1: after every event the number of Drift Records equals the
\* number of learned models.
C1_DriftsMatchModels == Len(drifts) = Len(models)

C1_Witness == Len(drifts) >= 2 /\ Len(models) >= 2

\* ---- C2: the counts of the Drift Records strictly increase in list order
\* and the first one equals cut_point.
C2_CountsIncrease ==
  /\ \A i \in 1..(Len(drifts) - 1) : drifts[i][1] < drifts[i + 1][1]
  /\ drifts # <<>> => drifts[1][1] = cut_point

C2_Witness == Len(drifts) >= 2 /\ drifts[2][1] > cut_point

\* ---- C3: the warm-up ends at the finalized trace that makes
\* processed_traces equal cut_point: nothing was recorded before it, that
\* step appends the one row (cut_point, select_top(top_variants)) and learns
\* model 0 without evaluating, and every later trace is handled by the
\* tracking branch, which evaluates it and leaves row 0 and model 0 alone.
C3_WarmupEndsOnce ==
  [][processed_traces' # processed_traces =>
       /\ processed_traces' < cut_point =>
            drifts' = <<>> /\ models' = <<>> /\ evaluations' = <<>>
       /\ processed_traces' = cut_point =>
            /\ drifts = <<>> /\ models = <<>> /\ evaluations = <<>>
            /\ drifts' = << <<cut_point>> \o
                            select_best_variants(order, variants', top_variants) >>
            /\ Len(models') = 1
            /\ evaluations' = <<>>
       /\ processed_traces' > cut_point =>
            /\ Len(evaluations') = Len(evaluations) + 1
            /\ drifts # <<>> => drifts'[1] = drifts[1] /\ models'[1] = models[1]
            /\ Len(drifts') > Len(drifts) => Last(drifts')[1] > cut_point
    ]_vars

\* warm-up 2, top_variants 1, two traces with distinct variants
C3_Witness ==
  /\ cut_point = 2 /\ top_variants = 1
  /\ processed_traces = 2
  /\ Len(variants) = 2
  /\ Len(drifts) = 1 /\ Len(models) = 1 /\ evaluations = <<>>

\* ---- C4: whenever evaluate_model has been invoked (it appends its row
\* before it reads the models) the model list is non-empty.
C4_EvaluateHasModel == evaluations # <<>> => models # <<>>

\* ---- C5: in TRACKING a finalized trace appends the row
\* (processed_traces, new_variants) and learns a model if and only if
\* select_top(top_variants) on the updated index differs from the variants
\* of the most recent Drift Record.
C5_DriftIffChanged ==
  [][(processed_traces' # processed_traces /\ processed_traces' > cut_point
        /\ drifts # <<>>) =>
       LET best == select_best_variants(order, variants', top_variants) IN
         IF best # Tail(Last(drifts))
         THEN /\ drifts' = Append(drifts, <<processed_traces'>> \o best)
              /\ Len(models') = Len(models) + 1
         ELSE drifts' = drifts /\ models' = models
    ]_vars

\* ---- C6: no recorded variant (and no open buffer) holds three
\* consecutive equal activities; two consecutive equal ones do occur.
HasRun3(t) == \E i \in 1..(Len(t) - 2) : t[i] = t[i + 1] /\ t[i + 1] = t[i + 2]
HasRun2(t) == \E i \in 1..(Len(t) - 1) : t[i] = t[i + 1]

C6_NoTripleRepeat ==
  /\ \A v \in KeySet(variants) : ~HasRun3(v)
  /\ \A c \in DOMAIN traces : ~HasRun3(traces[c])

C6_Witness ==
  /\ HasRun3(consumed)
  /\ HasRun2(new_trace)
  /\ new_trace \in KeySet(variants)

\* ---- C7: the finalized trace is the case's input with every run of three
\* or more equal consecutive activities cut to two, whatever the other
\* cases do in between.
\* Truncated(s): s without the elements that follow two equal elements of s
RECURSIVE TruncatedTo(_, _)
TruncatedTo(s, n) ==
  IF n = 0 THEN <<>>
  ELSE IF n >= 3 /\ s[n - 1] = s[n] /\ s[n - 2] = s[n]
       THEN TruncatedTo(s, n - 1)
       ELSE Append(TruncatedTo(s, n - 1), s[n])
Truncated(s) == TruncatedTo(s, Len(s))

C7_TraceIsTruncatedInput ==
  /\ new_trace = Truncated(consumed)
  /\ DOMAIN raw = DOMAIN traces
  /\ \A c \in DOMAIN traces : traces[c] = Truncated(raw[c])
  /\ \A c \in DOMAIN traces : Len(raw[c]) = 1 => traces[c] = raw[c]

\* A,A,A,A,B becomes (A,A,B) while another case is open
C7_Witness ==
  /\ consumed = <<"A", "A", "A", "A", "B">>
  /\ new_trace = <<"A", "A", "B">>
  /\ \E c \in DOMAIN traces : Len(raw[c]) >= 2

\* ---- C8: select_top(k) returns the k best variants of the index (all of
\* them when the index holds fewer than k), best first: by descending
\* count under FRQ, ascending length under MIN, descending length under
\* MAX, and no variant left out ranks better than a selected one.
Rank(o, c, v) ==
  IF o = FRQ THEN Count(c, v) ELSE IF o = MIN THEN 0 - Len(v) ELSE Len(v)

IsTopK(o, c, k, sel) ==
  /\ Len(sel) = Min2(k, Len(c))
  /\ \A i \in 1..Len(sel) : sel[i] \in KeySet(c)
  /\ \A i, j \in 1..Len(sel) : i # j => sel[i] # sel[j]
  /\ \A i \in 1..(Len(sel) - 1) : Rank(o, c, sel[i]) >= Rank(o, c, sel[i + 1])
  /\ \A v \in KeySet(c) \ {sel[i] : i \in 1..Len(sel)} :
       \A i \in 1..Len(sel) : Rank(o, c, v) <= Rank(o, c, sel[i])

C8_SelectTopRanks ==
  \A o \in Order, k \in 0..(MaxTopVariants + 1) :
    IsTopK(o, variants, k, select_best_variants(o, variants, k))

\* an index whose variants differ in count and in length, of which the
\* selection made by the last trace left some out
C8_Witness ==
  /\ \E i, j \in 1..Len(variants) : variants[i][2] < variants[j][2]
  /\ \E i, j \in 1..Len(variants) : Len(variants[i][1]) < Len(variants[j][1])
  /\ best_variants = select_best_variants(order, variants, top_variants)
  /\ Len(best_variants) >= 1
  /\ Len(best_variants) < Len(variants)

\* ---- C9: under the frequency policy the score of each variant is the
\* number of finalized traces equal to it, the scores sum to
\* processed_traces, and processed_traces is the number of end events
\* consumed; three cases A,B,END leave {(A,B): 3} and select_top(1) = [(A,B)].
Occurrences(v) == Cardinality({i \in 1..Len(finalized) : finalized[i] = v})

RECURSIVE SumCounts(_)
SumCounts(c) == IF c = <<>> THEN 0 ELSE Last(c)[2] + SumCounts(Front(c))

C9_CountsAreOccurrences ==
  order = FRQ =>
    /\ KeySet(variants) = {finalized[i] : i \in 1..Len(finalized)}
    /\ \A i, j \in 1..Len(variants) : i # j => variants[i][1] # variants[j][1]
    /\ \A i \in 1..Len(variants) : variants[i][2] = Occurrences(variants[i][1])
    /\ SumCounts(variants) = processed_traces
    /\ processed_traces = Len(finalized)
    /\ finalized = << <<"A", "B">>, <<"A", "B">>, <<"A", "B">> >> =>
         /\ variants = << << <<"A", "B">>, 3 >> >>
         /\ select_best_variants(order, variants, 1) = << <<"A", "B">> >>

C9_Witness ==
  /\ order = FRQ
  /\ finalized = << <<"A", "B">>, <<"A", "B">>, <<"A", "B">> >>
  /\ variants = << << <<"A", "B">>, 3 >> >>

\* ---- C10: one complete row of six values is appended for every
\* finalized trace with processed_traces > cut_point and none otherwise:
\* len(evaluations) == max(0, processed_traces - cut_point).
C10_OneRowPerTrackedTrace ==
  /\ Len(evaluations) = Max2(0, processed_traces - cut_point)
  /\ \A i \in 1..Len(evaluations) : Len(evaluations[i]) = 6

\* ---- C11: an end event for a case with no open buffer fails with the
\* missing-case error, that step changes neither the index nor
\* processed_traces, the Drift Records, the models or the evaluations, and
\* the run is over: no later event is consumed.
IsEndOf(e, c) == e = <<c, FINAL_ACTIVITY>>

C11_MissingCaseAborts ==
  [][/\ \A c \in Cases :
          (IsEndOf(event', c) /\ c \notin DOMAIN traces) =>
            /\ error' = "KeyError"
            /\ UNCHANGED <<variants, processed_traces, drifts, models,
                           evaluations, traces, best_variants>>
     /\ error = "KeyError" => UNCHANGED vars
     /\ (error' = "KeyError" /\ error = "none") =>
          \E c \in Cases : IsEndOf(event', c) /\ c \notin DOMAIN traces
    ]_vars

\* the failure after some traces were processed and a model was learned
C11_Witness ==
  /\ error = "KeyError"
  /\ processed_traces >= 1
  /\ models # <<>>
  /\ \E c \in Cases : IsEndOf(event, c) /\ c \notin DOMAIN traces

\* ---- C12: with cut_point <= 0 or top_variants <= 0 the configuration is
\* rejected before the stream is read: no event is consumed and no variant,
\* Drift Record, model or evaluation is produced.
C12_BadConfigRejected ==
  (cut_point <= 0 \/ top_variants <= 0) =>
    /\ event = <<>>
    /\ variants = <<>>
    /\ drifts = <<>> /\ models = <<>> /\ evaluations = <<>>

\* ---- C13: an evaluation that returns fitness 0 and precision 0 does not
\* raise: its row is complete (six values) and processing continues.
C13_ZeroScoresDoNotRaise ==
  /\ error # "ZeroDivisionError"
  /\ models # <<>> => \A i \in 1..Len(evaluations) : Len(evaluations[i]) = 6

\* ---- C15: every Drift Record holds exactly top_variants variants (one
\* count column plus top_variants variant columns), also when fewer than
\* top_variants distinct variants have been seen.
C15_RowsHoldTopVariants ==
  \A i \in 1..Len(drifts) : Len(drifts[i]) = 1 + top_variants

\* ---- C16: a tracked trace n is evaluated before drift detection: the
\* current model of its evaluation is the model of the last Drift Record
\* with a count below n, never one learned because of n, and the baseline
\* is model 0; the selection that follows is made on the index that
\* already counts trace n.
RowsBelow(n) == {i \in 1..Len(drifts) : drifts[i][1] < n}

C16_EvaluatedBeforeRelearning ==
  /\ eval_models # <<>> =>
       /\ processed_traces > cut_point
       /\ RowsBelow(processed_traces) # {}
       /\ LET j == CHOOSE i \in RowsBelow(processed_traces) :
                     \A k \in RowsBelow(processed_traces) : k <= i
          IN /\ eval_models[1] = models[j]
             /\ models[j] = Tail(drifts[j])
       /\ eval_models[2] = models[1]
  /\ (processed_traces > cut_point /\ error = "none" /\ drifts # <<>>) =>
       /\ Count(variants, new_trace) >= 1
       /\ best_variants = select_best_variants(order, variants, top_variants)
       /\ Tail(Last(drifts)) = best_variants

\* the last trace was evaluated against model 0 and then caused model 1
C16_Witness ==
  /\ Len(models) = 2
  /\ Last(drifts)[1] = processed_traces
  /\ eval_models = <<models[1], models[1]>>
  /\ models[2] # models[1]
  /\ Len(evaluations) >= 1

\* ---- C17: the end event of a case removes its buffer in the same step;
\* afterwards the case has no buffer, a further activity of that case
\* opens a buffer holding exactly that activity, and a further end event
\* without a new buffer is the missing-case failure.
C17_BufferRemovedAtEnd ==
  [][/\ \A c \in Cases :
          /\ (IsEndOf(event', c) /\ c \in DOMAIN traces) =>
               c \notin DOMAIN traces' /\ c \in closed'
          /\ (IsEndOf(event', c) /\ c \notin DOMAIN traces) =>
               error' = "KeyError" /\ traces' = traces
          /\ \A a \in Activities :
               (event' = <<c, a>> /\ c \notin DOMAIN traces) =>
                 c \in DOMAIN traces' /\ traces'[c] = <<a>>
     /\ closed' \cap DOMAIN traces' = {}
    ]_vars

\* a second end event for a case that was finalized and not opened again
C17_Witness ==
  /\ error = "KeyError"
  /\ \E c \in closed : IsEndOf(event, c)

\* ---- C18: Drift Records, models and Evaluation Records are append-only:
\* a step only adds entries behind the existing ones; the run never
\* returns to warm-up, and model 0 stays the model learned at the cut-off.
IsPrefix(s, t) == Len(s) <= Len(t) /\ SubSeq(t, 1, Len(s)) = s

C18_AppendOnly ==
  [][/\ IsPrefix(drifts, drifts')
     /\ IsPrefix(models, models')
     /\ IsPrefix(evaluations, evaluations')
     /\ processed_traces' >= processed_traces
     /\ models' # <<>> =>
          /\ drifts' # <<>>
          /\ drifts'[1][1] = cut_point
          /\ models'[1] = Tail(drifts'[1])
    ]_vars

C18_Witness ==
  /\ Len(models) >= 2
  /\ Len(evaluations) >= 2
  /\ models[1] = Tail(drifts[1])
  /\ models[2] # models[1]

\* ---- C19: an activity event changes only the buffer of its own case;
\* the other buffers, the index, processed_traces, best_variants, the Drift
\* Records, the models and the evaluations change only on end events.
C19_ActivityFrame ==
  [][/\ \A c \in Cases, a \in Activities :
          event' = <<c, a>> =>
            /\ DOMAIN traces' = DOMAIN traces \cup {c}
            /\ \A d \in DOMAIN traces \ {c} : traces'[d] = traces[d]
            /\ UNCHANGED <<variants, processed_traces, best_variants, drifts,
                           models, evaluations, error>>
     /\ <<variants, processed_traces, best_variants, drifts, models,
          evaluations>>' # <<variants, processed_traces, best_variants, drifts,
                             models, evaluations>> =>
          \E c \in Cases : IsEndOf(event', c)
    ]_vars

\* an activity of one case while another case holds two activities and a
\* model exists
C19_Witness ==
  /\ Cardinality(DOMAIN traces) = 2
  /\ event # <<>> /\ event[2] \in Activities
  /\ \E d \in DOMAIN traces \ {event[1]} : Len(traces[d]) = 2
  /\ models # <<>>

\* ---- C20: under the length policies variants of equal length are
\* selected in descending count order, then in insertion order; so a change
\* of counts alone can change the selection and create a Drift Record.
Pos(c, v) == CHOOSE i \in 1..Len(c) : c[i][1] = v

TiesByCount(c, sel) ==
  \A i \in 1..(Len(sel) - 1) :
    Len(sel[i]) = Len(sel[i + 1]) =>
      \/ Count(c, sel[i]) > Count(c, sel[i + 1])
      \/ /\ Count(c, sel[i]) = Count(c, sel[i + 1])
         /\ Pos(c, sel[i]) < Pos(c, sel[i + 1])

C20_LengthTiesByCount ==
  \A o \in {MIN, MAX} :
    LET full == select_best_variants(o, variants, Len(variants)) IN
    /\ Len(full) = Len(variants)
    /\ TiesByCount(variants, full)
    /\ \A k \in 0..Len(variants) :
         select_best_variants(o, variants, k) = SubSeq(full, 1, k)

\* a Drift Record created under a length policy by a trace whose variant
\* was already in the index
C20_Witness ==
  /\ order # FRQ
  /\ error = "none"
  /\ Len(drifts) >= 2
  /\ Last(drifts)[1] = processed_traces
  /\ Count(variants, new_trace) >= 2
  /\ Len(Last(drifts)) = Len(drifts[Len(drifts) - 1])
  /\ \A i \in 2..Len(Last(drifts)) :
       Len(Last(drifts)[i]) = Len(drifts[Len(drifts) - 1][i])

=============================================================================
